---- MODULE Spec2Model ----
(***************************************************************************)
(* WEJA WAF gateway (weja-project/waf-proxy/server.js): the request        *)
(* interception pipeline, the IP blacklist with its attack counters, the   *)
(* dual-mode decision log and the blacklist administration routes.         *)
(*                                                                         *)
(* Time is the value of Date.now(), counted in abstract ticks.  Node runs  *)
(* every handler to its next await without interruption, so one action is  *)
(* one run of a handler (or of a continuation) between two awaits on I/O.  *)
(* An await on saveLog in memory mode resolves in a microtask, before any  *)
(* I/O callback, so the continuation belongs to the same action.           *)
(***************************************************************************)
EXTENDS Integers, Sequences, FiniteSets, TLC

\* ------------------------------------------------------------ bounds
\* Spec: requests admitted to /proxy, and the last tick of Date.now().
MaxRequests == 2
MaxPipelineTime == 2
\* SpecStore: the last tick of Date.now(), and the attacks recorded per source.
MaxTime == 4
MaxAttacks == 4
\* SpecScenario: requests admitted.
MaxScenarioRequests == 4
\* SpecLive: requests admitted.
MaxLiveRequests == 2
\* SpecConcurrent: requests admitted.
MaxConcurrentRequests == 4
\* SpecIsolation: requests admitted and the time that passes.
MaxIsolationRequests == 1
MaxIsolationTime == 3
\* SpecEndpoints: records written.
MaxEndpointRecords == 3
\* SpecStats: records written.
MaxStatRecords == 4
\* SpecLogs: records written.
MaxLogRecords == 5

\* ------------------------------------------------------------ configuration
\* server.js:31
BLACKLIST_THRESHOLD == 3
\* server.js:32 (60 * 60 * 1000 ms), scaled to ticks
BLACKLIST_DURATION == 2
\* server.js:26 (1000), scaled
MAX_MEMORY_LOGS == 3
\* server.js:175, server.js:410: the divisor 1000 (ms per second), scaled
MS_PER_SECOND == 2

\* Source addresses (req.ip) and concurrently in-flight request contexts.
IPs == {"9.9.9.9", "5.5.5.5"}
Slots == {1, 2}

\* Oracle protocol: the verdicts the classifier can answer with.
Verdicts ==
    { [blocked |-> TRUE,  type |-> "SQL_INJECTION", confidence |-> 95],
      [blocked |-> FALSE, type |-> "SAFE",          confidence |-> 5] }
NoVerdict == [blocked |-> FALSE, type |-> "-", confidence |-> 0]

\* What the origin can answer with when it answers.
OriginStatuses == {200, 500}
OriginBodies == {"page", "oops"}

\* Reasons an operator can send with POST /api/blacklist ("" is a missing one).
PostReasons == {"test", ""}

\* server.js:273: the page taken when req.query.page parses to NaN or 0
DEFAULT_PAGE == 1
\* server.js:274: the limit taken when req.query.limit parses to NaN or 0
\* (50), scaled
DEFAULT_LIMIT == 2

\* A query parameter that should hold an integer: absent, or its digits.
Absent == [present |-> FALSE, n |-> 0]
Given(k) == [present |-> TRUE, n |-> k]

\* What a client can send as ?page= and ?limit= of GET /api/logs.
PageQueries == {Absent} \cup {Given(k) : k \in {-1, 0, 1, 2, 3}}
LimitQueries == {Absent} \cup {Given(k) : k \in {0, 1, 2}}

VARIABLES
    now,            \* Date.now()
    ipBlacklist,    \* the Map ipBlacklist, as its entries in insertion order
    ipAttackCount,  \* the Map ipAttackCount (an absent key reads as 0)
    useInMemory,    \* the flag set by the outcome of mongoose.connect
    readyState,     \* mongoose.connection.readyState: 0, 1 (connected), 2
    mongoUp,        \* whether the MongoDB server at MONGODB_URI can be reached
    inMemoryLogs,   \* the fallback log, newest first
    dbLogs,         \* the Log collection, newest first
    nextId,         \* the next _id given to a log record
    req,            \* the request contexts of /proxy
    api,            \* the last response of a blacklist administration route
    admitted,       \* number of requests admitted so far
    classifier      \* per source: what the classifier was asked and answered

vars == <<now, ipBlacklist, ipAttackCount, useInMemory, readyState, mongoUp,
          inMemoryLogs, dbLogs, nextId, req, api, admitted, classifier>>

\* ------------------------------------------------------------ the Map ipBlacklist
MapHas(m, ip) == \E i \in 1..Len(m) : m[i].ip = ip

MapGet(m, ip) == m[CHOOSE i \in 1..Len(m) : m[i].ip = ip]

MapDelete(m, ip) == SelectSeq(m, LAMBDA e : e.ip # ip)

\* Map.set keeps the position of a key that is present and appends a new one.
MapSet(m, e) ==
    IF MapHas(m, e.ip)
    THEN [i \in 1..Len(m) |-> IF m[i].ip = e.ip THEN e ELSE m[i]]
    ELSE Append(m, e)

\* ------------------------------------------------------------ reasons
ManualReason(text) == [text |-> text, count |-> 0, type |-> "-"]

\* `Auto-blocked after ${count} attacks (${attackType})`
AutoReason(count, attackType) ==
    [text |-> "Auto-blocked after", count |-> count, type |-> attackType]

\* ------------------------------------------------------------ reputation store
\* server.js:75: the expiry test of isBlacklisted
Expired(blockedAt, t) == t - blockedAt > BLACKLIST_DURATION

\* Faulty variant of isBlacklisted: an entry counts as expired from the
\* instant its age reaches BLACKLIST_DURATION.
isBlacklisted_Early(bl, ip, t) ==
    /\ MapHas(bl, ip)
    /\ t - MapGet(bl, ip).blockedAt < BLACKLIST_DURATION

\* server.js:70-80: the value isBlacklisted(ip) returns at time t
isBlacklisted(bl, ip, t) ==
    /\ MapHas(bl, ip)
    /\ ~Expired(MapGet(bl, ip).blockedAt, t)

\* server.js:75-78: the table isBlacklisted(ip) leaves behind (lazy purge)
isBlacklistedPurge(bl, ip, t) ==
    IF MapHas(bl, ip) /\ Expired(MapGet(bl, ip).blockedAt, t)
    THEN MapDelete(bl, ip)
    ELSE bl

\* Faulty variant of addToBlacklist: every entry is marked autoBlocked.
addToBlacklist_AlwaysAuto(bl, ip, reason, autoBlocked, t) ==
    MapSet(bl, [ip |-> ip, blockedAt |-> t, reason |-> reason,
                autoBlocked |-> TRUE])

\* server.js:83-91 (entry.geo is getGeoLocation(ip), a function of the key)
addToBlacklist(bl, ip, reason, autoBlocked, t) ==
    MapSet(bl, [ip |-> ip, blockedAt |-> t, reason |-> reason,
                autoBlocked |-> autoBlocked])

\* Faulty variant of trackAttack: count > BLACKLIST_THRESHOLD.
trackAttack_Above(bl, cnt, ip, attackType, t) ==
    LET count == cnt[ip] + 1
        cnt2  == [cnt EXCEPT ![ip] = count]
    IN  IF count > BLACKLIST_THRESHOLD /\ ~isBlacklisted(bl, ip, t)
        THEN [bl  |-> addToBlacklist(isBlacklistedPurge(bl, ip, t), ip,
                                     AutoReason(count, attackType), TRUE, t),
              cnt |-> cnt2]
        ELSE [bl |-> bl, cnt |-> cnt2]

\* Faulty variant of trackAttack: no test for an existing block.
trackAttack_Reinserts(bl, cnt, ip, attackType, t) ==
    LET count == cnt[ip] + 1
        cnt2  == [cnt EXCEPT ![ip] = count]
    IN  IF count >= BLACKLIST_THRESHOLD
        THEN [bl  |-> addToBlacklist(bl, ip, AutoReason(count, attackType), TRUE, t),
              cnt |-> cnt2]
        ELSE [bl |-> bl, cnt |-> cnt2]

\* server.js:94-101: the two tables after trackAttack(ip, attackType)
trackAttack(bl, cnt, ip, attackType, t) ==
    LET count == cnt[ip] + 1
        cnt2  == [cnt EXCEPT ![ip] = count]
    IN  IF count >= BLACKLIST_THRESHOLD
        THEN IF isBlacklisted(bl, ip, t)
             THEN [bl |-> bl, cnt |-> cnt2]
             ELSE [bl  |-> addToBlacklist(isBlacklistedPurge(bl, ip, t), ip,
                                          AutoReason(count, attackType), TRUE, t),
                   cnt |-> cnt2]
        ELSE [bl |-> bl, cnt |-> cnt2]

\* Math.ceil(a / b) for b > 0
CeilDiv(a, b) == -((-a) \div b)

\* server.js:175, server.js:410
RemainingSeconds(blockedAt, t) ==
    CeilDiv(BLACKLIST_DURATION - (t - blockedAt), MS_PER_SECOND)

\* ------------------------------------------------------------ decision log sink
\* server.js:125: the test that selects the fallback backend
MemoryMode == useInMemory \/ readyState # 1

\* Faulty variant of Unshift: nothing is popped.
Unshift_NoCap(logs, rec) == <<rec>> \o logs

\* server.js:133-136: unshift, then pop when the cap is exceeded
Unshift(logs, rec) ==
    LET l == <<rec>> \o logs
    IN  IF Len(l) > MAX_MEMORY_LOGS THEN SubSeq(l, 1, Len(l) - 1) ELSE l

\* The logData objects the middleware hands to saveLog (the fields the
\* decisions are made of; confidence in hundredths).
\* server.js:157-169
BlacklistedRecord(id, ip) ==
    [id |-> id, sourceIp |-> ip, blocked |-> TRUE,
     attackType |-> "BLACKLISTED", confidence |-> 100]

\* Faulty variant of VerdictRecord: every classified request logged as blocked.
VerdictRecord_Blocked(id, ip, analysis) ==
    [id |-> id, sourceIp |-> ip, blocked |-> TRUE,
     attackType |-> analysis.type, confidence |-> analysis.confidence]

\* server.js:212-224
VerdictRecord(id, ip, analysis) ==
    [id |-> id, sourceIp |-> ip, blocked |-> analysis.blocked,
     attackType |-> analysis.type, confidence |-> analysis.confidence]

\* Faulty variant of ErrorRecord: the fail-open record marked as blocked.
ErrorRecord_Blocked(id, ip) ==
    [id |-> id, sourceIp |-> ip, blocked |-> TRUE,
     attackType |-> "ERROR", confidence |-> 0]

\* server.js:249-261
ErrorRecord(id, ip) ==
    [id |-> id, sourceIp |-> ip, blocked |-> FALSE,
     attackType |-> "ERROR", confidence |-> 0]

\* ------------------------------------------------------------ responses
NoResp == [kind |-> "none", status |-> 0]

\* Faulty variant of BlacklistedResponse: Math.floor in place of Math.ceil.
BlacklistedResponse_Floor(entry, t) ==
    [kind |-> "blacklisted", status |-> 403,
     blacklistReason |-> entry.reason,
     remainingTime |->
       (BLACKLIST_DURATION - (t - entry.blockedAt)) \div MS_PER_SECOND]

\* server.js:171-176
BlacklistedResponse(entry, t) ==
    [kind |-> "blacklisted", status |-> 403,
     blacklistReason |-> entry.reason,
     remainingTime |-> RemainingSeconds(entry.blockedAt, t)]

\* server.js:232-238
ThreatResponse(analysis, logId) ==
    [kind |-> "threat", status |-> 403, attackType |-> analysis.type,
     confidence |-> analysis.confidence, requestId |-> logId]

\* Faulty variant of OriginResponse: every answer relayed as 200.
OriginResponse_Ok(status, data) ==
    [kind |-> "origin", status |-> 200, body |-> data]

\* server.js:557, server.js:561
OriginResponse(status, data) ==
    [kind |-> "origin", status |-> status, body |-> data]

\* server.js:563-566
BadGatewayResponse ==
    [kind |-> "bad_gateway", status |-> 502,
     body |-> "Bad Gateway: Unable to reach target server"]

\* ------------------------------------------------------------ request contexts
NoEntry == [ip |-> "-", blockedAt |-> 0, reason |-> ManualReason("-"),
            autoBlocked |-> FALSE]

\* pc: where the handler is suspended.  entry: the blacklist entry read at
\* server.js:153 (NoEntry when the check reported the source clear).
\* analysis: aiResponse.data.  attempts: the records handed to saveLog.
\* aiCalls, tracks, forwards: calls of the classifier, of trackAttack and of
\* next() made for this request.  origin: what the call of the origin came
\* back with.
NoOrigin == [answered |-> FALSE, status |-> 0, data |-> "-"]

IdleReq ==
    [pc |-> "idle", ip |-> "-", entry |-> NoEntry, analysis |-> NoVerdict,
     aiFailed |-> FALSE, aiCalls |-> 0, tracks |-> 0, forwards |-> 0,
     attempts |-> <<>>, saveFailed |-> FALSE, origin |-> NoOrigin,
     resp |-> NoResp]

\* A context is released by the step that follows its response.
Released == [s \in Slots |-> IF req[s].pc = "done" THEN IdleReq ELSE req[s]]

NoApi == [op |-> "none", status |-> 0, ip |-> "-", list |-> <<>>]

\* The classifier's side of the oracle protocol, per source: calls is the
\* number of POST /analyze requests received, run the number of blocked
\* verdicts answered in a row.
NotAsked == [calls |-> 0, run |-> 0]

Asked(c, ip) == [c EXCEPT ![ip].calls = @ + 1]

Answered(c, ip, blocked) ==
    [c EXCEPT ![ip].run = IF blocked THEN @ + 1 ELSE 0]

FreeSlot(s) == req[s].pc \in {"idle", "done"}

\* Contexts are handed out lowest slot first.
NextSlot(s) == FreeSlot(s) /\ \A o \in Slots : o < s => ~FreeSlot(o)

Init ==
    /\ now = 0
    /\ ipBlacklist = <<>>
    /\ ipAttackCount = [ip \in IPs |-> 0]
    /\ useInMemory = FALSE
    /\ readyState = 2
    /\ mongoUp \in BOOLEAN
    /\ inMemoryLogs = <<>>
    /\ dbLogs = <<>>
    /\ nextId = 1
    /\ req = [s \in Slots |-> IdleReq]
    /\ api = NoApi
    /\ admitted = 0
    /\ classifier = [ip \in IPs |-> NotAsked]

\* ------------------------------------------------------------ wafMiddleware
\* server.js:147-177: entry of the middleware.  A blacklisted source is
\* logged and answered 403; any other is sent to the classifier.
Arrive(s, ip) ==
    /\ NextSlot(s)
    /\ admitted' = admitted + 1
    /\ api' = NoApi
    /\ UNCHANGED <<now, ipAttackCount, useInMemory, readyState, mongoUp, dbLogs>>
    /\ IF isBlacklisted(ipBlacklist, ip, now)
       THEN LET entry == MapGet(ipBlacklist, ip)
                rec   == BlacklistedRecord(nextId, ip)
                r     == [IdleReq EXCEPT !.ip = ip, !.entry = entry,
                                         !.attempts = <<rec>>]
            IN  /\ nextId' = nextId + 1
                /\ UNCHANGED <<ipBlacklist, classifier>>
                /\ IF MemoryMode
                   THEN /\ inMemoryLogs' = Unshift(inMemoryLogs, rec)
                        /\ req' = [Released EXCEPT ![s] =
                                     [r EXCEPT !.pc = "done",
                                               !.resp = BlacklistedResponse(entry, now)]]
                   ELSE /\ UNCHANGED inMemoryLogs
                        /\ req' = [Released EXCEPT ![s] = [r EXCEPT !.pc = "bl_save"]]
       ELSE /\ ipBlacklist' = isBlacklistedPurge(ipBlacklist, ip, now)
            /\ req' = [Released EXCEPT ![s] =
                         [IdleReq EXCEPT !.ip = ip, !.pc = "ai", !.aiCalls = 1]]
            /\ classifier' = Asked(classifier, ip)
            /\ UNCHANGED <<inMemoryLogs, nextId>>

\* Faulty variant of BlacklistSaveSettles: the 403 is sent without return,
\* so the middleware goes on to the classifier.
BlacklistSaveSettles_NoReturn(s, ok) ==
    /\ req[s].pc = "bl_save"
    /\ dbLogs' = IF ok THEN <<req[s].attempts[1]>> \o dbLogs ELSE dbLogs
    /\ req' = [Released EXCEPT ![s].pc = "ai",
                               ![s].aiCalls = @ + 1,
                               ![s].saveFailed = ~ok,
                               ![s].resp = BlacklistedResponse(req[s].entry, now)]
    /\ classifier' = Asked(classifier, req[s].ip)
    /\ api' = NoApi
    /\ UNCHANGED <<now, ipBlacklist, ipAttackCount, useInMemory, readyState, mongoUp,
                   inMemoryLogs, nextId, admitted>>

\* Faulty variant of BlacklistSaveSettles: the denied request is counted as
\* an attack of its source.
BlacklistSaveSettles_Counts(s, ok) ==
    /\ req[s].pc = "bl_save"
    /\ dbLogs' = IF ok THEN <<req[s].attempts[1]>> \o dbLogs ELSE dbLogs
    /\ req' = [Released EXCEPT ![s].pc = "done",
                          ![s].saveFailed = ~ok,
                          ![s].resp = BlacklistedResponse(req[s].entry, now)]
    /\ api' = NoApi
    /\ ipAttackCount' = [ipAttackCount EXCEPT ![req[s].ip] = @ + 1]
    /\ UNCHANGED <<now, ipBlacklist, useInMemory, readyState, mongoUp,
                   inMemoryLogs, nextId, admitted, classifier>>

\* server.js:157-176: logEntry.save() of the blacklisted path settles; a
\* rejection is swallowed by .catch(() => { }).
BlacklistSaveSettles(s, ok) ==
    /\ req[s].pc = "bl_save"
    /\ dbLogs' = IF ok THEN <<req[s].attempts[1]>> \o dbLogs ELSE dbLogs
    /\ req' = [Released EXCEPT ![s].pc = "done",
                          ![s].saveFailed = ~ok,
                          ![s].resp = BlacklistedResponse(req[s].entry, now)]
    /\ api' = NoApi
    /\ UNCHANGED <<now, ipBlacklist, ipAttackCount, useInMemory, readyState, mongoUp,
                   inMemoryLogs, nextId, admitted, classifier>>

\* server.js:226-243: after the verdict's record is saved, a blocked verdict
\* is tracked and answered 403, any other is passed on with next().
Decide(s, r, logId) ==
    IF r.analysis.blocked
    THEN LET t == trackAttack(ipBlacklist, ipAttackCount, r.ip, r.analysis.type, now)
         IN  /\ ipBlacklist' = t.bl
             /\ ipAttackCount' = t.cnt
             /\ req' = [Released EXCEPT ![s] =
                          [r EXCEPT !.pc = "done", !.tracks = @ + 1,
                                    !.resp = ThreatResponse(r.analysis, logId)]]
    ELSE /\ UNCHANGED <<ipBlacklist, ipAttackCount>>
         /\ req' = [Released EXCEPT ![s] = [r EXCEPT !.pc = "fwd", !.forwards = @ + 1]]

\* Faulty variant of FailOpen: next() is called without awaiting the write.
FailOpen_Eager(s, r) ==
    LET rec == ErrorRecord(nextId, r.ip)
        r2  == [r EXCEPT !.attempts = Append(@, rec)]
    IN  /\ nextId' = nextId + 1
        /\ UNCHANGED <<ipBlacklist, ipAttackCount, inMemoryLogs>>
        /\ req' = [Released EXCEPT ![s] =
                     [r2 EXCEPT !.pc = "fwd", !.forwards = @ + 1]]

\* server.js:245-264: the catch block logs an ERROR record (a failure of
\* that write is swallowed) and passes the request on with next().
FailOpen(s, r) ==
    LET rec == ErrorRecord(nextId, r.ip)
        r2  == [r EXCEPT !.attempts = Append(@, rec)]
    IN  /\ nextId' = nextId + 1
        /\ UNCHANGED <<ipBlacklist, ipAttackCount>>
        /\ IF MemoryMode
           THEN /\ inMemoryLogs' = Unshift(inMemoryLogs, rec)
                /\ req' = [Released EXCEPT ![s] =
                             [r2 EXCEPT !.pc = "fwd", !.forwards = @ + 1]]
           ELSE /\ UNCHANGED inMemoryLogs
                /\ req' = [Released EXCEPT ![s] = [r2 EXCEPT !.pc = "err_save"]]

\* server.js:201-224: the classifier answers 2xx with a verdict.
ClassifierAnswers(s, v) ==
    /\ req[s].pc = "ai"
    /\ classifier' = Answered(classifier, req[s].ip, v.blocked)
    /\ api' = NoApi
    /\ UNCHANGED <<now, useInMemory, readyState, mongoUp, dbLogs, admitted>>
    /\ LET rec == VerdictRecord(nextId, req[s].ip, v)
           r   == [req[s] EXCEPT !.analysis = v, !.attempts = Append(@, rec)]
       IN  /\ nextId' = nextId + 1
           /\ IF MemoryMode
              THEN /\ inMemoryLogs' = Unshift(inMemoryLogs, rec)
                   /\ Decide(s, r, rec.id)
              ELSE /\ UNCHANGED <<inMemoryLogs, ipBlacklist, ipAttackCount>>
                   /\ req' = [Released EXCEPT ![s] = [r EXCEPT !.pc = "save"]]

\* Faulty variant of ClassifierFails: the call is made again.
ClassifierFails_Retry(s) ==
    /\ req[s].pc = "ai"
    /\ classifier' = Asked(classifier, req[s].ip)
    /\ req' = [Released EXCEPT ![s].aiCalls = @ + 1]
    /\ api' = NoApi
    /\ UNCHANGED <<now, ipBlacklist, ipAttackCount, useInMemory, readyState,
                   mongoUp, inMemoryLogs, dbLogs, nextId, admitted>>

\* server.js:201-206, 245: axios.post rejects (timeout, non-2xx, connection
\* failure).
ClassifierFails(s) ==
    /\ req[s].pc = "ai"
    /\ classifier' = Answered(classifier, req[s].ip, FALSE)
    /\ api' = NoApi
    /\ UNCHANGED <<now, useInMemory, readyState, mongoUp, dbLogs, admitted>>
    /\ FailOpen(s, [req[s] EXCEPT !.aiFailed = TRUE])

\* server.js:212-243: logEntry.save() of the verdict's record resolves.
VerdictSaveResolves(s) ==
    /\ req[s].pc = "save"
    /\ dbLogs' = <<req[s].attempts[1]>> \o dbLogs
    /\ Decide(s, req[s], req[s].attempts[1].id)
    /\ api' = NoApi
    /\ UNCHANGED <<now, useInMemory, readyState, mongoUp, inMemoryLogs, nextId,
                   admitted, classifier>>

\* Faulty variant of VerdictSaveRejects: the record is stored although the
\* write is reported as failed.
VerdictSaveRejects_Stored(s) ==
    /\ req[s].pc = "save"
    /\ FailOpen(s, [req[s] EXCEPT !.saveFailed = TRUE])
    /\ api' = NoApi
    /\ dbLogs' = <<req[s].attempts[1]>> \o dbLogs
    /\ UNCHANGED <<now, useInMemory, readyState, mongoUp, admitted, classifier>>

\* server.js:212, 245: logEntry.save() of the verdict's record rejects; the
\* await sits inside the try block, so control passes to the catch block.
VerdictSaveRejects(s) ==
    /\ req[s].pc = "save"
    /\ FailOpen(s, [req[s] EXCEPT !.saveFailed = TRUE])
    /\ api' = NoApi
    /\ UNCHANGED <<now, useInMemory, readyState, mongoUp, dbLogs, admitted, classifier>>

\* server.js:249-263: logEntry.save() of the ERROR record settles.
ErrorSaveSettles(s, ok) ==
    /\ req[s].pc = "err_save"
    /\ dbLogs' = IF ok THEN <<req[s].attempts[Len(req[s].attempts)]>> \o dbLogs
                 ELSE dbLogs
    /\ req' = [Released EXCEPT ![s].pc = "fwd", ![s].forwards = @ + 1,
                          ![s].saveFailed = @ \/ ~ok]
    /\ api' = NoApi
    /\ UNCHANGED <<now, ipBlacklist, ipAttackCount, useInMemory, readyState, mongoUp,
                   inMemoryLogs, nextId, admitted, classifier>>

\* ------------------------------------------------------------ proxy handler
\* server.js:542-561: the origin answers (any status); relayed verbatim.
OriginAnswers(s, status, data) ==
    /\ req[s].pc = "fwd"
    /\ req' = [Released EXCEPT ![s].pc = "done",
                               ![s].origin = [answered |-> TRUE,
                                              status |-> status, data |-> data],
                               ![s].resp = OriginResponse(status, data)]
    /\ api' = NoApi
    /\ UNCHANGED <<now, ipBlacklist, ipAttackCount, useInMemory, readyState, mongoUp,
                   inMemoryLogs, dbLogs, nextId, admitted, classifier>>

\* Faulty variant of OriginUnreachable: the handler ends without a response.
OriginUnreachable_NoResponse(s) ==
    /\ req[s].pc = "fwd"
    /\ req' = [Released EXCEPT ![s].pc = "done"]
    /\ api' = NoApi
    /\ UNCHANGED <<now, ipBlacklist, ipAttackCount, useInMemory, readyState, mongoUp,
                   inMemoryLogs, dbLogs, nextId, admitted, classifier>>

\* server.js:562-567: no response from the origin (unreachable, timeout).
OriginUnreachable(s) ==
    /\ req[s].pc = "fwd"
    /\ req' = [Released EXCEPT ![s].pc = "done", ![s].resp = BadGatewayResponse]
    /\ api' = NoApi
    /\ UNCHANGED <<now, ipBlacklist, ipAttackCount, useInMemory, readyState, mongoUp,
                   inMemoryLogs, dbLogs, nextId, admitted, classifier>>

\* ------------------------------------------------------------ blacklist routes
ApiResponse(op, status, ip, list) ==
    [op |-> op, status |-> status, ip |-> ip, list |-> list]

\* server.js:403: the validity test of the listing
ListedValid(blockedAt, t) == t - blockedAt <= BLACKLIST_DURATION

\* server.js:406: new Date(ms).toISOString() makes a string; iso is the
\* instant the string denotes.
ToISOString(ms) == [iso |-> ms]

\* server.js:404-411: one element of the listing
Listed(e, t) ==
    [ip |-> e.ip, blockedAt |-> ToISOString(e.blockedAt), reason |-> e.reason,
     autoBlocked |-> e.autoBlocked,
     remainingSeconds |-> RemainingSeconds(e.blockedAt, t)]

\* JavaScript numbers: NaN or a value.
NaN == [nan |-> TRUE, v |-> 0]

\* server.js:417: the operands of `-` go through ToNumber, and ToNumber of
\* a string of the form 2024-01-01T00:00:00.000Z is NaN.
ToNumber(str) == NaN

\* server.js:417: the operator `-` on two numbers
Minus(x, y) ==
    IF x.nan \/ y.nan THEN NaN ELSE [nan |-> FALSE, v |-> x.v - y.v]

\* server.js:417: the comparator (a, b) => b.blockedAt - a.blockedAt as
\* Array.prototype.sort reads it (a NaN result is taken as +0).
CompareListed(a, b) ==
    LET d == Minus(ToNumber(b.blockedAt), ToNumber(a.blockedAt))
    IN  IF d.nan THEN 0 ELSE d.v

\* Array.prototype.sort (stable): x is put behind every element of the
\* sorted sequence that does not compare greater than it.
RECURSIVE InsertListed(_, _)
InsertListed(sorted, x) ==
    IF sorted = <<>> THEN <<x>>
    ELSE IF CompareListed(Head(sorted), x) > 0
         THEN <<x>> \o sorted
         ELSE <<Head(sorted)>> \o InsertListed(Tail(sorted), x)

RECURSIVE SortListed(_)
SortListed(seq) ==
    IF seq = <<>> THEN <<>>
    ELSE InsertListed(SortListed(SubSeq(seq, 1, Len(seq) - 1)), seq[Len(seq)])

\* server.js:399-419: the body of GET /api/blacklist at time t
BlacklistListing(bl, t) ==
    LET valid == SelectSeq(bl, LAMBDA e : ListedValid(e.blockedAt, t))
    IN  SortListed([i \in 1..Len(valid) |-> Listed(valid[i], t)])

\* server.js:399-419
GetBlacklist ==
    /\ api' = ApiResponse("GET /api/blacklist", 200, "-",
                          BlacklistListing(ipBlacklist, now))
    /\ req' = Released
    /\ UNCHANGED <<now, ipBlacklist, ipAttackCount, useInMemory, readyState, mongoUp,
                   inMemoryLogs, dbLogs, nextId, admitted, classifier>>

\* Faulty variant of PostBlacklist: no test for an existing block.
PostBlacklist_NoConflict(ip, reason) ==
    /\ req' = Released
    /\ UNCHANGED <<now, ipAttackCount, useInMemory, readyState, mongoUp, inMemoryLogs,
                   dbLogs, nextId, admitted, classifier>>
    /\ IF ip = ""
       THEN /\ api' = ApiResponse("POST /api/blacklist", 400, ip, <<>>)
            /\ UNCHANGED ipBlacklist
       ELSE /\ api' = ApiResponse("POST /api/blacklist", 200, ip, <<>>)
            /\ ipBlacklist' =
                 addToBlacklist(ipBlacklist, ip,
                                ManualReason(IF reason = "" THEN "Manually added"
                                             ELSE reason),
                                FALSE, now)

\* server.js:422-440: ip = "" is a body without an address, reason = "" one
\* without a reason.
PostBlacklist(ip, reason) ==
    /\ req' = Released
    /\ UNCHANGED <<now, ipAttackCount, useInMemory, readyState, mongoUp, inMemoryLogs,
                   dbLogs, nextId, admitted, classifier>>
    /\ IF ip = ""
       THEN /\ api' = ApiResponse("POST /api/blacklist", 400, ip, <<>>)
            /\ UNCHANGED ipBlacklist
       ELSE IF isBlacklisted(ipBlacklist, ip, now)
       THEN /\ api' = ApiResponse("POST /api/blacklist", 409, ip, <<>>)
            /\ UNCHANGED ipBlacklist
       ELSE /\ api' = ApiResponse("POST /api/blacklist", 200, ip, <<>>)
            /\ ipBlacklist' =
                 addToBlacklist(isBlacklistedPurge(ipBlacklist, ip, now), ip,
                                ManualReason(IF reason = "" THEN "Manually added"
                                             ELSE reason),
                                FALSE, now)

\* Faulty variant of DeleteBlacklist: only the counter is deleted.
DeleteBlacklist_KeepsEntry(ip) ==
    /\ req' = Released
    /\ UNCHANGED <<now, useInMemory, readyState, mongoUp, inMemoryLogs, dbLogs, nextId,
                   admitted, classifier>>
    /\ IF ~MapHas(ipBlacklist, ip)
       THEN /\ api' = ApiResponse("DELETE /api/blacklist", 404, ip, <<>>)
            /\ UNCHANGED <<ipBlacklist, ipAttackCount>>
       ELSE /\ api' = ApiResponse("DELETE /api/blacklist", 200, ip, <<>>)
            /\ UNCHANGED ipBlacklist
            /\ ipAttackCount' = [ipAttackCount EXCEPT ![ip] = 0]

\* Faulty variant of DeleteBlacklist: the counter is left as it is.
DeleteBlacklist_KeepsCounter(ip) ==
    /\ req' = Released
    /\ UNCHANGED <<now, useInMemory, readyState, mongoUp, inMemoryLogs, dbLogs, nextId,
                   admitted, classifier, ipAttackCount>>
    /\ IF ~MapHas(ipBlacklist, ip)
       THEN /\ api' = ApiResponse("DELETE /api/blacklist", 404, ip, <<>>)
            /\ UNCHANGED ipBlacklist
       ELSE /\ api' = ApiResponse("DELETE /api/blacklist", 200, ip, <<>>)
            /\ ipBlacklist' = MapDelete(ipBlacklist, ip)

\* server.js:443-458
DeleteBlacklist(ip) ==
    /\ req' = Released
    /\ UNCHANGED <<now, useInMemory, readyState, mongoUp, inMemoryLogs, dbLogs,
                   nextId, admitted, classifier>>
    /\ IF ~MapHas(ipBlacklist, ip)
       THEN /\ api' = ApiResponse("DELETE /api/blacklist", 404, ip, <<>>)
            /\ UNCHANGED <<ipBlacklist, ipAttackCount>>
       ELSE /\ api' = ApiResponse("DELETE /api/blacklist", 200, ip, <<>>)
            /\ ipBlacklist' = MapDelete(ipBlacklist, ip)
            /\ ipAttackCount' = [ipAttackCount EXCEPT ![ip] = 0]

\* server.js:229: a call of trackAttack(ip, attackType) on the tables
RecordAttack(ip, attackType) ==
    LET t == trackAttack(ipBlacklist, ipAttackCount, ip, attackType, now)
    IN  /\ ipBlacklist' = t.bl
        /\ ipAttackCount' = t.cnt
        /\ req' = Released
        /\ api' = NoApi
        /\ UNCHANGED <<now, useInMemory, readyState, mongoUp, inMemoryLogs, dbLogs,
                       nextId, admitted, classifier>>

\* ------------------------------------------------------------ classifier payload
\* req.query and req.body: objects, as their members in insertion order.
ParamKeys == {"id", "path"}
ParamValues == {"1", "1 OR 1=1"}
RequestPaths == {"/login"}

Member(k, v) == [k |-> k, v |-> v]

Objects ==
    {o \in UNION {[1..n -> {Member(k, v) : k \in ParamKeys, v \in ParamValues}] :
                   n \in 0..Cardinality(ParamKeys)} :
        \A i, j \in 1..Len(o) : i # j => o[i].k # o[j].k}

\* obj[k] = v: an own key keeps its place, a new one is added at the end.
ObjSet(obj, k, v) ==
    IF \E i \in 1..Len(obj) : obj[i].k = k
    THEN [i \in 1..Len(obj) |-> IF obj[i].k = k THEN Member(k, v) ELSE obj[i]]
    ELSE Append(obj, Member(k, v))

\* { ...target, ...src }: the members of src are set one after the other.
RECURSIVE Spread(_, _)
Spread(target, src) ==
    IF src = <<>> THEN target
    ELSE Spread(ObjSet(target, Head(src).k, Head(src).v), Tail(src))

\* JSON.stringify of an object of strings: its members "k":"v" in order.
Stringify(obj) == [i \in 1..Len(obj) |-> <<obj[i].k, obj[i].v>>]

\* server.js:193-197
Payload(query, body, path) ==
    Stringify(ObjSet(Spread(Spread(<<>>, query), body), "path", path))

\* server.js:180-206: the body of POST /analyze built for a request.
BuildPayload(query, body, path) ==
    /\ api' = [op |-> "POST /analyze", status |-> 0, ip |-> "-", list |-> <<>>,
               query |-> query, body |-> body,
               payload |-> Payload(query, body, path), path |-> path]
    /\ req' = Released
    /\ UNCHANGED <<now, ipBlacklist, ipAttackCount, useInMemory, readyState,
                   mongoUp, inMemoryLogs, dbLogs, nextId, admitted, classifier>>

\* ------------------------------------------------------------ log routes
\* server.js:124-143: a call of saveLog that completes; the record is the
\* one of a classified request with verdict v.
RecordLogged(ip, v) ==
    LET rec == VerdictRecord(nextId, ip, v)
    IN  /\ nextId' = nextId + 1
        /\ IF MemoryMode
           THEN inMemoryLogs' = Unshift(inMemoryLogs, rec) /\ UNCHANGED dbLogs
           ELSE dbLogs' = <<rec>> \o dbLogs /\ UNCHANGED inMemoryLogs
        /\ api' = IF api.op = "GET /api/logs" /\ api.status = 0
                  THEN [api EXCEPT !.raced = ~MemoryMode]
                  ELSE NoApi
        /\ req' = Released
        /\ UNCHANGED <<now, ipBlacklist, ipAttackCount, useInMemory, readyState,
                       mongoUp, admitted, classifier>>

\* parseInt of a query parameter: NaN when the parameter is absent.
ParseInt(q) == IF q.present THEN [nan |-> FALSE, v |-> q.n] ELSE NaN

\* server.js:273-274: x || d for a number x (NaN and 0 are falsy)
OrElse(x, d) == IF x.nan \/ x.v = 0 THEN d ELSE x.v

\* Faulty variant of Slice: the element at index end is included.
Slice_Inclusive(seq, start, end) ==
    LET len  == Len(seq)
        from == IF start < 0 THEN (IF len + start < 0 THEN 0 ELSE len + start)
                ELSE (IF start > len THEN len ELSE start)
        to   == IF end < 0 THEN (IF len + end + 1 < 0 THEN 0 ELSE len + end + 1)
                ELSE (IF end + 1 > len THEN len ELSE end + 1)
    IN  IF to > from THEN SubSeq(seq, from + 1, to) ELSE <<>>

\* Array.prototype.slice(start, end): a negative index counts from the end.
Slice(seq, start, end) ==
    LET len  == Len(seq)
        from == IF start < 0 THEN (IF len + start < 0 THEN 0 ELSE len + start)
                ELSE (IF start > len THEN len ELSE start)
        to   == IF end < 0 THEN (IF len + end < 0 THEN 0 ELSE len + end)
                ELSE (IF end > len THEN len ELSE end)
    IN  IF to > from THEN SubSeq(seq, from + 1, to) ELSE <<>>

\* server.js:290-299: the body of the response (status 0: not yet sent).
\* served names the backend the records were read from, raced tells that a
\* record was written between the two queries of the durable branch.
LogsResponse(status, page, limit, logs, total, served) ==
    [op |-> "GET /api/logs", status |-> status, ip |-> "-", list |-> logs,
     page |-> page, limit |-> limit, total |-> total,
     pages |-> CeilDiv(total, limit),
     storage |-> IF useInMemory THEN "memory" ELSE "mongodb",
     served |-> served, raced |-> FALSE]

\* server.js:300-302
ServerError(op) == [op |-> op, status |-> 500, ip |-> "-", list |-> <<>>]

\* server.js:271-286: GET /api/logs up to its answer in the fallback branch,
\* up to the answer of Log.find() in the durable branch (a negative skip is
\* refused by the database).
GetLogs(pageQ, limitQ) ==
    LET page  == OrElse(ParseInt(pageQ), DEFAULT_PAGE)
        limit == OrElse(ParseInt(limitQ), DEFAULT_LIMIT)
        skip  == (page - 1) * limit
    IN  /\ api' =
              IF MemoryMode
              THEN LogsResponse(200, page, limit,
                                Slice(inMemoryLogs, skip, skip + limit),
                                Len(inMemoryLogs), "memory")
              ELSE IF skip < 0
              THEN ServerError("GET /api/logs")
              ELSE LogsResponse(0, page, limit,
                                Slice(dbLogs, skip, skip + limit), 0, "mongodb")
        /\ req' = Released
        /\ UNCHANGED <<now, ipBlacklist, ipAttackCount, useInMemory, readyState,
                       mongoUp, inMemoryLogs, dbLogs, nextId, admitted, classifier>>

\* server.js:287-302: Log.countDocuments() settles and the answer is sent;
\* a rejected query ends in the catch block.
GetLogsCounted(ok) ==
    /\ api.op = "GET /api/logs"
    /\ api.status = 0
    /\ api' = IF ok
              THEN [LogsResponse(200, api.page, api.limit, api.list,
                                 Len(dbLogs), "mongodb")
                      EXCEPT !.raced = api.raced]
              ELSE ServerError("GET /api/logs")
    /\ req' = Released
    /\ UNCHANGED <<now, ipBlacklist, ipAttackCount, useInMemory, readyState,
                   mongoUp, inMemoryLogs, dbLogs, nextId, admitted, classifier>>

\* What saveLog is called with by the middleware: a verdict's fields, or
\* those of the blacklisted path (server.js:165-167).
LogKinds ==
    Verdicts \cup {[blocked |-> TRUE, type |-> "BLACKLISTED", confidence |-> 100]}

\* server.js:312, 326: the records with blocked = true
BlockedOf(logs) == SelectSeq(logs, LAMBDA l : l.blocked)

\* server.js:315-320: typeMap as its entries in insertion order, after the
\* records of logs have been counted one by one.
RECURSIVE TypeMap(_)
TypeMap(logs) ==
    IF logs = <<>> THEN <<>>
    ELSE LET before == TypeMap(SubSeq(logs, 1, Len(logs) - 1))
             type   == logs[Len(logs)].attackType
         IN  IF \E i \in 1..Len(before) : before[i].type = type
             THEN [i \in 1..Len(before) |->
                     IF before[i].type = type
                     THEN [type |-> type, count |-> before[i].count + 1]
                     ELSE before[i]]
             ELSE Append(before, [type |-> type, count |-> 1])

\* Faulty variant of CompareCount: ascending.
CompareCount_Ascending(a, b) == a.count - b.count

\* server.js:321: the comparator (a, b) => b.count - a.count
CompareCount(a, b) == b.count - a.count

\* Array.prototype.sort (stable) with CompareCount.
RECURSIVE InsertByCount(_, _)
InsertByCount(sorted, x) ==
    IF sorted = <<>> THEN <<x>>
    ELSE IF CompareCount(Head(sorted), x) > 0
         THEN <<x>> \o sorted
         ELSE <<Head(sorted)>> \o InsertByCount(Tail(sorted), x)

RECURSIVE SortByCount(_)
SortByCount(seq) ==
    IF seq = <<>> THEN <<>>
    ELSE InsertByCount(SortByCount(SubSeq(seq, 1, Len(seq) - 1)), seq[Len(seq)])

\* server.js:328-333: what $group and $sort by count can answer with (the
\* order of groups of equal count is the database's choice).
Aggregations(logs) ==
    LET groups == TypeMap(BlockedOf(logs))
        n      == Len(groups)
    IN  {[i \in 1..n |-> groups[f[i]]] :
           f \in {g \in [1..n -> 1..n] :
                    /\ \A i, j \in 1..n : i # j => g[i] # g[j]
                    /\ \A i, j \in 1..n :
                          i < j => groups[g[i]].count >= groups[g[j]].count}}

\* server.js:354-366 (blockRate and hourlyTraffic left out)
StatsResponse(total, blocked, attackTypes, served) ==
    [op |-> "GET /api/stats", status |-> 200, ip |-> "-", list |-> <<>>,
     total |-> total, blocked |-> blocked, allowed |-> total - blocked,
     attackTypes |-> attackTypes,
     storage |-> IF useInMemory THEN "memory" ELSE "mongodb",
     served |-> served]

\* server.js:306-370: GET /api/stats; the queries of the durable branch are
\* answered from the collection as it is.
GetStats ==
    /\ IF MemoryMode
       THEN api' = StatsResponse(Len(inMemoryLogs), Len(BlockedOf(inMemoryLogs)),
                                 SortByCount(TypeMap(BlockedOf(inMemoryLogs))),
                                 "memory")
       ELSE \E attackTypes \in Aggregations(dbLogs) :
              api' = StatsResponse(Len(dbLogs), Len(BlockedOf(dbLogs)),
                                   attackTypes, "mongodb")
    /\ req' = Released
    /\ UNCHANGED <<now, ipBlacklist, ipAttackCount, useInMemory, readyState,
                   mongoUp, inMemoryLogs, dbLogs, nextId, admitted, classifier>>

\* server.js:325-351, 367-369: a query of the durable branch rejects.
GetStatsFails ==
    /\ ~MemoryMode
    /\ api' = ServerError("GET /api/stats")
    /\ req' = Released
    /\ UNCHANGED <<now, ipBlacklist, ipAttackCount, useInMemory, readyState,
                   mongoUp, inMemoryLogs, dbLogs, nextId, admitted, classifier>>

\* server.js:464: the limit of GET /api/top-attackers when none is given
DEFAULT_TOP == 2

\* server.js:469-477, 499-507: the blocked records grouped by sourceIp, in
\* the order in which the sources first appear.
RECURSIVE IpMap(_)
IpMap(logs) ==
    IF logs = <<>> THEN <<>>
    ELSE LET before == IpMap(SubSeq(logs, 1, Len(logs) - 1))
             ip     == logs[Len(logs)].sourceIp
         IN  IF \E i \in 1..Len(before) : before[i].ip = ip
             THEN [i \in 1..Len(before) |->
                     IF before[i].ip = ip
                     THEN [ip |-> ip, count |-> before[i].count + 1]
                     ELSE before[i]]
             ELSE Append(before, [ip |-> ip, count |-> 1])

\* server.js:498-510: what $group by sourceIp, $sort by attackCount and
\* $limit can answer with (the order of groups of equal count is the
\* database's choice).
AttackerAggregations(logs, limit) ==
    LET groups == IpMap(BlockedOf(logs))
        n      == Len(groups)
    IN  {Slice([i \in 1..n |-> groups[f[i]]], 0, limit) :
           f \in {g \in [1..n -> 1..n] :
                    /\ \A i, j \in 1..n : i # j => g[i] # g[j]
                    /\ \A i, j \in 1..n :
                          i < j => groups[g[i]].count >= groups[g[j]].count}}

\* server.js:478, 523: isBlacklisted called for each of the sources of
\* groups: the table its lazy purges leave behind.
PurgeEach(bl, groups, t) ==
    SelectSeq(bl, LAMBDA e :
        ~ /\ \E i \in 1..Len(groups) : groups[i].ip = e.ip
          /\ Expired(e.blockedAt, t))

\* server.js:471-478, 515-524: the attackers of the response
Attackers(bl, groups, t) ==
    [i \in 1..Len(groups) |->
       [ip |-> groups[i].ip, attackCount |-> groups[i].count,
        isBlacklisted |-> isBlacklisted(bl, groups[i].ip, t)]]

\* Faulty variant of GetTopAttackers: the entries of the sources named in
\* the response are deleted whether expired or not.
GetTopAttackers_Deletes(limitQ) ==
    LET limit == OrElse(ParseInt(limitQ), DEFAULT_TOP)
    IN  /\ \E top \in IF MemoryMode
                      THEN {IpMap(BlockedOf(inMemoryLogs))}
                      ELSE AttackerAggregations(dbLogs, limit) :
             /\ ipBlacklist' =
                    SelectSeq(ipBlacklist, LAMBDA e :
                        ~ \E i \in 1..Len(top) : top[i].ip = e.ip)
             /\ api' = ApiResponse("GET /api/top-attackers", 200, "-",
                                   Attackers(ipBlacklist, top, now))
        /\ req' = Released
        /\ UNCHANGED <<now, ipAttackCount, useInMemory, readyState, mongoUp,
                       inMemoryLogs, dbLogs, nextId, admitted, classifier>>

\* server.js:461-531: GET /api/top-attackers; the aggregate of the durable
\* branch is answered from the collection as it is when it resolves.
GetTopAttackers(limitQ) ==
    LET limit == OrElse(ParseInt(limitQ), DEFAULT_TOP)
    IN  /\ IF MemoryMode
           THEN LET groups == IpMap(BlockedOf(inMemoryLogs))
                IN  /\ ipBlacklist' = PurgeEach(ipBlacklist, groups, now)
                    /\ api' = ApiResponse("GET /api/top-attackers", 200, "-",
                                 Slice(Attackers(ipBlacklist, SortByCount(groups), now),
                                       0, limit))
           ELSE \E top \in AttackerAggregations(dbLogs, limit) :
                  /\ ipBlacklist' = PurgeEach(ipBlacklist, top, now)
                  /\ api' = ApiResponse("GET /api/top-attackers", 200, "-",
                                        Attackers(ipBlacklist, top, now))
        /\ req' = Released
        /\ UNCHANGED <<now, ipAttackCount, useInMemory, readyState, mongoUp,
                       inMemoryLogs, dbLogs, nextId, admitted, classifier>>

\* server.js:532-534: the aggregate rejects.
GetTopAttackersFails ==
    /\ ~MemoryMode
    /\ api' = ServerError("GET /api/top-attackers")
    /\ req' = Released
    /\ UNCHANGED <<now, ipBlacklist, ipAttackCount, useInMemory, readyState,
                   mongoUp, inMemoryLogs, dbLogs, nextId, admitted, classifier>>

\* What the probe of the classifier's /health comes to (server.js:376-378).
AiHealths == {"healthy", "unhealthy"}

\* server.js:373-394: GET /api/health, from the moment the probe of the
\* classifier has come back (the rest runs without an await).
GetHealth(aiHealth) ==
    /\ api' = [op |-> "GET /api/health", status |-> 200, ip |-> "-",
               list |-> <<>>, aiEngine |-> aiHealth,
               database |-> IF readyState = 1 THEN "healthy"
                            ELSE "unavailable (using memory)",
               storage |-> IF useInMemory THEN "memory" ELSE "mongodb",
               blacklistedIPs |-> Len(ipBlacklist)]
    /\ req' = Released
    /\ UNCHANGED <<now, ipBlacklist, ipAttackCount, useInMemory, readyState,
                   mongoUp, inMemoryLogs, dbLogs, nextId, admitted, classifier>>

\* ------------------------------------------------------------ environment
\* Date.now() advances.
Tick ==
    /\ now' = now + 1
    /\ req' = Released
    /\ api' = NoApi
    /\ UNCHANGED <<ipBlacklist, ipAttackCount, useInMemory, readyState, mongoUp,
                   inMemoryLogs, dbLogs, nextId, admitted, classifier>>

\* server.js:113-116: mongoose.connect resolves.
MongoConnects ==
    /\ readyState = 2
    /\ mongoUp
    /\ readyState' = 1
    /\ useInMemory' = FALSE
    /\ req' = Released
    /\ api' = NoApi
    /\ UNCHANGED <<now, ipBlacklist, ipAttackCount, mongoUp, inMemoryLogs,
                   dbLogs, nextId, admitted, classifier>>

\* server.js:117-121: mongoose.connect rejects (no server selected within
\* serverSelectionTimeoutMS).  Mongoose does not retry an initial connection.
MongoConnectFails ==
    /\ readyState = 2
    /\ ~mongoUp
    /\ readyState' = 0
    /\ useInMemory' = TRUE
    /\ req' = Released
    /\ api' = NoApi
    /\ UNCHANGED <<now, ipBlacklist, ipAttackCount, mongoUp, inMemoryLogs,
                   dbLogs, nextId, admitted, classifier>>

\* The server goes out of reach and the established connection is lost;
\* mongoose sets readyState to 0.
MongoDisconnects ==
    /\ readyState = 1
    /\ readyState' = 0
    /\ mongoUp' = FALSE
    /\ req' = Released
    /\ api' = NoApi
    /\ UNCHANGED <<now, ipBlacklist, ipAttackCount, useInMemory,
                   inMemoryLogs, dbLogs, nextId, admitted, classifier>>

\* The server is back in reach and mongoose re-establishes the connection
\* that had been made once.
MongoReconnects ==
    /\ readyState = 0
    /\ ~useInMemory
    /\ ~mongoUp
    /\ mongoUp' = TRUE
    /\ readyState' = 1
    /\ req' = Released
    /\ api' = NoApi
    /\ UNCHANGED <<now, ipBlacklist, ipAttackCount, useInMemory,
                   inMemoryLogs, dbLogs, nextId, admitted, classifier>>

\* The server comes into reach while the initial connection is still being
\* attempted, or after that attempt was given up (server.js:117-121).
MongoBecomesReachable ==
    /\ ~mongoUp
    /\ readyState = 2 \/ useInMemory
    /\ mongoUp' = TRUE
    /\ req' = Released
    /\ api' = NoApi
    /\ UNCHANGED <<now, ipBlacklist, ipAttackCount, useInMemory, readyState,
                   inMemoryLogs, dbLogs, nextId, admitted, classifier>>

\* ------------------------------------------------------------ specifications
\* The continuations of the middleware and of the proxy handler.
Continue(s) ==
    \/ \E ok \in BOOLEAN : BlacklistSaveSettles(s, ok)
    \/ \E v \in Verdicts : ClassifierAnswers(s, v)
    \/ ClassifierFails(s)
    \/ VerdictSaveResolves(s)
    \/ VerdictSaveRejects(s)
    \/ \E ok \in BOOLEAN : ErrorSaveSettles(s, ok)
    \/ \E st \in OriginStatuses, data \in OriginBodies : OriginAnswers(s, st, data)
    \/ OriginUnreachable(s)

Mongo ==
    \/ MongoConnects
    \/ MongoConnectFails
    \/ MongoDisconnects
    \/ MongoReconnects

\* The pipeline: requests of one source, one at a time, against both log
\* backends, with an operator blocking and unblocking the source meanwhile.
Next ==
    \/ admitted < MaxRequests /\ Arrive(1, "9.9.9.9")
    \/ Continue(1)
    \/ Mongo
    \/ PostBlacklist("9.9.9.9", "test")
    \/ DeleteBlacklist("9.9.9.9")
    \/ now < MaxPipelineTime /\ Tick

Spec == Init /\ [][Next]_vars

\* The pipeline when every external call (classifier, log write, origin)
\* returns or times out: axios is given a timeout at server.js:205 and
\* server.js:554, and a pending save is settled by mongoose.  Requests of
\* one source within one tick of the clock, an operator blocking the source
\* meanwhile, both log backends.
NextLive ==
    \/ admitted < MaxLiveRequests /\ Arrive(1, "9.9.9.9")
    \/ Continue(1)
    \/ Mongo
    \/ PostBlacklist("9.9.9.9", "test")

SpecLive == Init /\ [][NextLive]_vars /\ WF_vars(Continue(1))

\* The categories of the blocked verdicts.
AttackTypes == {v.type : v \in {w \in Verdicts : w.blocked}}

\* The reputation store on its own: its operations called in any order on
\* two sources while time passes.
NextStore ==
    \/ \E ip \in IPs, t \in AttackTypes :
          ipAttackCount[ip] < MaxAttacks /\ RecordAttack(ip, t)
    \/ \E ip \in IPs \cup {""}, reason \in PostReasons : PostBlacklist(ip, reason)
    \/ \E ip \in IPs : DeleteBlacklist(ip)
    \/ GetBlacklist
    \/ now < MaxTime /\ Tick

\* The log backend plays no part in it: the server is taken to be in reach.
InitStore == Init /\ mongoUp

SpecStore == InitStore /\ [][NextStore]_vars

\* Requests of one source in flight at the same time, each given a blocked
\* verdict, their continuations interleaved in every order within one tick
\* of the clock; both log backends, no write rejected on the classified path.
NextConcurrent ==
    \/ \E s \in Slots : admitted < MaxConcurrentRequests /\ Arrive(s, "9.9.9.9")
    \/ \E s \in Slots, v \in Verdicts : v.blocked /\ ClassifierAnswers(s, v)
    \/ \E s \in Slots : VerdictSaveResolves(s)
    \/ \E s \in Slots, ok \in BOOLEAN : BlacklistSaveSettles(s, ok)
    \/ MongoConnects
    \/ MongoConnectFails

SpecConcurrent == Init /\ [][NextConcurrent]_vars

\* The payload of the classifier built for every request content.
NextPayload ==
    \E query \in Objects, body \in Objects, path \in RequestPaths :
        BuildPayload(query, body, path)

SpecPayload == Init /\ [][NextPayload]_vars

\* The decision log on its own: records written and listings asked for in
\* any order while the database comes and goes.
NextLogs ==
    \/ \E v \in Verdicts : nextId <= MaxLogRecords /\ RecordLogged("9.9.9.9", v)
    \/ \E pageQ \in PageQueries, limitQ \in LimitQueries : GetLogs(pageQ, limitQ)
    \/ \E ok \in BOOLEAN : GetLogsCounted(ok)
    \/ Mongo
    \/ MongoBecomesReachable

SpecLogs == Init /\ [][NextLogs]_vars

\* The statistics of the decision log: records of every kind written and
\* statistics asked for in any order while the database comes and goes.
NextStats ==
    \/ \E k \in LogKinds : nextId <= MaxStatRecords /\ RecordLogged("9.9.9.9", k)
    \/ GetStats
    \/ GetStatsFails
    \/ Mongo

SpecStats == Init /\ [][NextStats]_vars

\* The blacklisted path over the life of a block: an operator blocks the
\* source, requests of the source arrive while it is blocked and their log
\* writes settle at any later time, and the listing is read meanwhile.
NextBlocked ==
    \/ /\ admitted < MaxRequests
       /\ isBlacklisted(ipBlacklist, "9.9.9.9", now)
       /\ Arrive(1, "9.9.9.9")
    \/ \E ok \in BOOLEAN : BlacklistSaveSettles(1, ok)
    \/ PostBlacklist("9.9.9.9", "test")
    \/ GetBlacklist
    \/ \E aiHealth \in AiHealths : GetHealth(aiHealth)
    \/ MongoConnects
    \/ MongoConnectFails
    \/ now < MaxTime /\ Tick

SpecBlocked == Init /\ [][NextBlocked]_vars

\* Two sources side by side while the log is kept in memory (the database
\* is still connecting): requests of either, one at a time, an operator
\* blocking and unblocking either, and the read-only endpoints called
\* meanwhile, while blocks expire.
NextIsolation ==
    \/ \E ip \in IPs : admitted < MaxIsolationRequests /\ Arrive(1, ip)
    \/ \E v \in Verdicts : ClassifierAnswers(1, v)
    \/ OriginAnswers(1, 200, "page")
    \/ \E ip \in IPs : PostBlacklist(ip, "test")
    \/ \E ip \in IPs : DeleteBlacklist(ip)
    \/ GetBlacklist
    \/ \E limitQ \in {Absent, Given(1)} : GetTopAttackers(limitQ)
    \/ GetHealth("healthy")
    \/ GetStats
    \/ GetLogs(Absent, Absent)
    \/ now < MaxIsolationTime /\ Tick

SpecIsolation == Init /\ [][NextIsolation]_vars

\* The reporting endpoints over the life of the log: records written and
\* the listing, the statistics and the health asked for in any order while
\* the database connects, fails to, goes away and comes back.
NextEndpoints ==
    \/ \E v \in Verdicts :
          nextId <= MaxEndpointRecords /\ RecordLogged("9.9.9.9", v)
    \/ GetLogs(Absent, Absent)
    \/ \E ok \in BOOLEAN : GetLogsCounted(ok)
    \/ GetStats
    \/ GetStatsFails
    \/ \E aiHealth \in AiHealths : GetHealth(aiHealth)
    \/ Mongo
    \/ MongoBecomesReachable

SpecEndpoints == Init /\ [][NextEndpoints]_vars

\* The escalation scenario: one source sends its requests one after the
\* other within one tick of the clock (so within the blacklist duration),
\* the classifier answers each of them with a SQL_INJECTION verdict, no
\* operator interferes; both log backends.
NextScenario ==
    \/ admitted < MaxScenarioRequests /\ Arrive(1, "9.9.9.9")
    \/ \E v \in Verdicts : v.type = "SQL_INJECTION" /\ ClassifierAnswers(1, v)
    \/ \E ok \in BOOLEAN : BlacklistSaveSettles(1, ok)
    \/ VerdictSaveResolves(1)
    \/ VerdictSaveRejects(1)
    \/ \E ok \in BOOLEAN : ErrorSaveSettles(1, ok)
    \/ \E st \in OriginStatuses, data \in OriginBodies : OriginAnswers(1, st, data)
    \/ OriginUnreachable(1)
    \/ Mongo

SpecScenario == Init /\ [][NextScenario]_vars

\* ------------------------------------------------------------ properties
InLogs(rec) ==
    \/ \E i \in 1..Len(inMemoryLogs) : inMemoryLogs[i] = rec
    \/ \E i \in 1..Len(dbLogs) : dbLogs[i] = rec

Forwarded(r) == r.forwards > 0

\* C1: a request the classifier answered with a blocked verdict is never
\* forwarded; once answered, trackAttack has been called exactly once for it
\* and the answer is the 403 that carries the verdict's type and confidence
\* and the id of the verdict's log record -- in both backends, whether or
\* not the write of the record succeeds.
C1_BlockedVerdictDenied ==
    \A s \in Slots :
        LET r == req[s]
        IN  r.analysis.blocked =>
              /\ ~Forwarded(r)
              /\ r.pc = "done" =>
                   /\ r.tracks = 1
                   /\ r.resp = [kind |-> "threat", status |-> 403,
                                attackType |-> r.analysis.type,
                                confidence |-> r.analysis.confidence,
                                requestId |-> r.attempts[1].id]

\* The decision the blacklist check and the classifier's outcome call for.
Denies(r) == r.entry # NoEntry \/ r.analysis.blocked

\* C2: a rejected log write changes neither the decision nor the response:
\* a request one of whose log writes was rejected is forwarded exactly when
\* it is neither blacklisted nor given a blocked verdict, and is answered
\* with the response of its path.
C2_SaveFailureSwallowed ==
    \A s \in Slots :
        LET r == req[s]
        IN  r.saveFailed =>
              /\ Forwarded(r) <=> (~Denies(r) /\ r.pc \in {"fwd", "done"})
              /\ r.pc = "done" =>
                   r.resp.kind =
                     IF r.entry # NoEntry THEN "blacklisted"
                     ELSE IF r.analysis.blocked THEN "threat"
                     ELSE IF r.resp.status = 502 THEN "bad_gateway"
                     ELSE "origin"

\* C3 as stated: once the classifier call of a request has failed, the
\* request is forwarded, trackAttack is not called, and the ERROR record
\* (blocked = false, confidence = 0) is in the log.
C3_FailOpenLogged ==
    \A s \in Slots :
        LET r == req[s]
        IN  (r.aiFailed /\ r.pc \in {"fwd", "done"}) =>
              /\ r.forwards = 1
              /\ r.tracks = 0
              /\ r.attempts = <<[id |-> r.attempts[1].id, sourceIp |-> r.ip,
                                 blocked |-> FALSE, attackType |-> "ERROR",
                                 confidence |-> 0]>>
              /\ InLogs(r.attempts[1])

\* C3 amended: once the classifier call of a request has failed, the request
\* is forwarded (it ends with the origin's answer or a 502, never a 403),
\* trackAttack is not called, the one record handed to the log sink has
\* blocked = false, attackType = ERROR and confidence = 0, and that record is
\* in the log unless its write was rejected.
C3_FailOpen ==
    \A s \in Slots :
        LET r == req[s]
        IN  r.aiFailed =>
              /\ r.pc \in {"err_save", "fwd", "done"}
              /\ r.tracks = 0
              /\ r.attempts = <<[id |-> r.attempts[1].id, sourceIp |-> r.ip,
                                 blocked |-> FALSE, attackType |-> "ERROR",
                                 confidence |-> 0]>>
              /\ r.pc \in {"fwd", "done"} =>
                   /\ r.forwards = 1
                   /\ r.saveFailed \/ InLogs(r.attempts[1])
              /\ r.pc = "done" => r.resp.kind \in {"origin", "bad_gateway"}

\* A request that failed open in durable mode, was logged and got the
\* origin's answer.
C3_Witness ==
    \E s \in Slots :
        /\ req[s].aiFailed
        /\ req[s].pc = "done"
        /\ req[s].resp.kind = "origin"
        /\ ~req[s].saveFailed
        /\ Len(dbLogs) > 0 /\ dbLogs[1] = req[s].attempts[1]

\* C4: a request whose source the blacklist check reported blocked causes
\* no call of the classifier and is never forwarded.
C4_BlacklistShortCircuit ==
    \A s \in Slots :
        LET r == req[s]
        IN  r.entry # NoEntry =>
              /\ r.aiCalls = 0
              /\ r.forwards = 0
              /\ r.pc \in {"bl_save", "done"}
              /\ r.analysis = NoVerdict /\ ~r.aiFailed

\* A blacklisted request answered after its durable log write settled, the
\* classifier never having been called for its source.
C4_Witness ==
    \E s \in Slots :
        /\ req[s].entry # NoEntry
        /\ req[s].pc = "done"
        /\ ~MemoryMode
        /\ classifier[req[s].ip].calls = 0

\* C5: a request denied at the blacklist stage is answered 403 with the
\* reason of the entry the check found and with the entry's remaining time
\* at the moment of the answer, ceil((DURATION - (now - blockedAt)) / 1000),
\* and the one record attempted for it has blocked = true, attackType =
\* BLACKLISTED and confidence = 1.0.
C5_BlacklistedDeny ==
    \A s \in Slots :
        LET r == req[s]
        IN  (r.entry # NoEntry /\ r.pc = "done") =>
              /\ r.resp.kind = "blacklisted"
              /\ r.resp.status = 403
              /\ r.resp.blacklistReason = r.entry.reason
              /\ LET left == BLACKLIST_DURATION - (now - r.entry.blockedAt)
                     secs == r.resp.remainingTime
                 IN  /\ secs * MS_PER_SECOND >= left
                     /\ (secs - 1) * MS_PER_SECOND < left
              /\ r.attempts = <<[id |-> r.attempts[1].id, sourceIp |-> r.ip,
                                 blocked |-> TRUE, attackType |-> "BLACKLISTED",
                                 confidence |-> 100]>>

\* A blacklisted request answered in durable mode, half a second of the
\* block left.
C5_Witness ==
    \E s \in Slots :
        /\ req[s].entry # NoEntry
        /\ req[s].pc = "done"
        /\ ~MemoryMode
        /\ BLACKLIST_DURATION - (now - req[s].entry.blockedAt) = 1
        /\ req[s].resp.remainingTime = 1

\* An unexpired entry that an operator made.
LiveManual(ip) ==
    /\ isBlacklisted(ipBlacklist, ip, now)
    /\ ~MapGet(ipBlacklist, ip).autoBlocked

AutoBlocked(bl, ip) == MapHas(bl, ip) /\ MapGet(bl, ip).autoBlocked

\* C6: the call of trackAttack that takes the counter of a source from
\* BLACKLIST_THRESHOLD - 1 to BLACKLIST_THRESHOLD, the source not being
\* under a manual block, leaves the source blacklisted by an entry with
\* autoBlocked = true; and while the counter of a source is below the
\* threshold the source has no auto-blocked entry.
C6_AutoBlockAtThreshold ==
    [][\A a \in IPs :
         /\ ( /\ ipAttackCount[a] = BLACKLIST_THRESHOLD - 1
              /\ ipAttackCount'[a] = BLACKLIST_THRESHOLD
              /\ ~LiveManual(a) )
            => /\ isBlacklisted(ipBlacklist', a, now')
               /\ AutoBlocked(ipBlacklist', a)
               /\ MapGet(ipBlacklist', a).blockedAt = now'
         /\ ipAttackCount[a] < BLACKLIST_THRESHOLD => ~AutoBlocked(ipBlacklist, a)
         /\ ipAttackCount'[a] < BLACKLIST_THRESHOLD => ~AutoBlocked(ipBlacklist', a)
      ]_vars

\* A source auto-blocked at this instant by its third attack.
C6_Witness ==
    \E a \in IPs :
        /\ ipAttackCount[a] = BLACKLIST_THRESHOLD
        /\ isBlacklisted(ipBlacklist, a, now)
        /\ AutoBlocked(ipBlacklist, a)
        /\ MapGet(ipBlacklist, a).blockedAt = now
        /\ MapGet(ipBlacklist, a).reason.count = BLACKLIST_THRESHOLD

\* C7: in the scenario (threshold 3, one source, requests one after the
\* other, all within the blacklist duration), when the first three requests
\* each got a blocked verdict from the classifier, the fourth request is
\* denied at the blacklist stage, its record has attackType BLACKLISTED, and
\* the classifier has been called three times.
C7_FourthRequestBlacklisted ==
    \A s \in Slots :
        LET r == req[s]
        IN  ( /\ r.pc # "idle"
              /\ admitted = 4
              /\ classifier[r.ip].run = 3 )
            => /\ r.entry # NoEntry
               /\ r.attempts[1].attackType = "BLACKLISTED"
               /\ classifier[r.ip].calls = 3

\* C8: right after DELETE /api/blacklist/:ip the address is not blacklisted,
\* and right after a POST /api/blacklist that blocked it (200) it is, by an
\* entry with autoBlocked = false made at this instant; a POST refused with
\* 409 leaves it blacklisted too.
C8_BlockUnblock ==
    /\ api.op = "DELETE /api/blacklist" =>
         ~isBlacklisted(ipBlacklist, api.ip, now)
    /\ (api.op = "POST /api/blacklist" /\ api.status = 200) =>
         /\ isBlacklisted(ipBlacklist, api.ip, now)
         /\ ~AutoBlocked(ipBlacklist, api.ip)
         /\ MapGet(ipBlacklist, api.ip).blockedAt = now
    /\ (api.op = "POST /api/blacklist" /\ api.status = 409) =>
         isBlacklisted(ipBlacklist, api.ip, now)

\* An auto-blocked source has just been removed by DELETE.
C8_Witness ==
    /\ api.op = "DELETE /api/blacklist"
    /\ api.status = 200
    /\ \E a \in IPs : a # api.ip /\ isBlacklisted(ipBlacklist, a, now)

\* C9: for an entry blocked at blockedAt, isBlacklisted is true exactly
\* while now - blockedAt < BLACKLIST_DURATION.
C9_ExpiryBoundary ==
    \A a \in IPs :
        MapHas(ipBlacklist, a) =>
          ( isBlacklisted(ipBlacklist, a, now)
              <=> now - MapGet(ipBlacklist, a).blockedAt < BLACKLIST_DURATION )

\* C10: every entry GET /api/blacklist returns satisfies now - blockedAt <
\* BLACKLIST_DURATION at the time of the call, and an address is in the
\* listing exactly when isBlacklisted holds of it.
C10_ListingUnexpired ==
    api.op = "GET /api/blacklist" =>
      /\ \A i \in 1..Len(api.list) :
           now - api.list[i].blockedAt.iso < BLACKLIST_DURATION
      /\ \A a \in IPs :
           (\E i \in 1..Len(api.list) : api.list[i].ip = a)
             <=> isBlacklisted(ipBlacklist, a, now)

\* C11: GET /api/blacklist returns its entries most recently blocked first:
\* of any two returned entries the one with the later blockedAt comes
\* earlier in the sequence.
C11_ListingNewestFirst ==
    api.op = "GET /api/blacklist" =>
      \A i, j \in 1..Len(api.list) :
          i < j => api.list[i].blockedAt.iso >= api.list[j].blockedAt.iso

\* The step handles past its log write a blocked verdict given to a request
\* of source a.
BlockedVerdictHandled(a) ==
    \E s \in Slots :
        /\ req[s].pc \in {"ai", "save"}
        /\ req'[s].pc \notin {"ai", "save"}
        /\ req'[s].ip = a
        /\ req'[s].analysis.blocked

\* The step is a DELETE /api/blacklist/:ip that removed source a.
Removed(a) ==
    /\ api'.op = "DELETE /api/blacklist"
    /\ api'.status = 200
    /\ api'.ip = a

\* C12: every blocked verdict adds exactly one to the attack counter of its
\* source, and the counter changes in no other way except that an explicit
\* removal of the source (DELETE) clears it: it is never decremented, and
\* expiry, a manual block and every other operation leave it alone.
C12_CounterLifecycle ==
    [][\A a \in IPs :
         /\ BlockedVerdictHandled(a) => ipAttackCount'[a] = ipAttackCount[a] + 1
         /\ ipAttackCount'[a] # ipAttackCount[a] =>
               \/ BlockedVerdictHandled(a) /\ ipAttackCount'[a] = ipAttackCount[a] + 1
               \/ Removed(a) /\ ipAttackCount'[a] = 0
      ]_vars

StoredCount(r) ==
    LET ids == {r.attempts[k].id : k \in 1..Len(r.attempts)}
    IN  Cardinality({i \in 1..Len(inMemoryLogs) : inMemoryLogs[i].id \in ids})
          + Cardinality({i \in 1..Len(dbLogs) : dbLogs[i].id \in ids})

\* The middleware has finished with request r: it answered 403 or called
\* next().
Decided(r) == r.pc \in {"fwd", "done"}

ProxyResponse(resp) ==
    \/ resp.kind \in {"blacklisted", "threat"} /\ resp.status = 403
    \/ resp.kind = "origin" /\ resp.status \in OriginStatuses
    \/ resp.kind = "bad_gateway" /\ resp.status = 502

\* C15: every request that enters /proxy is answered, whatever fails on its
\* way, and answered once: the handler sends a response (a 403, the
\* origin's response or a 502) exactly at its last step, next() is called at
\* most once, and never after or before a 403.
C15_AnsweredOnce ==
    /\ [](\A s \in Slots :
            LET r == req[s]
            IN  /\ r.pc = "done" <=> r.resp # NoResp
                /\ r.pc = "done" => ProxyResponse(r.resp)
                /\ r.forwards <= 1
                /\ r.resp.status = 403 => r.forwards = 0
                /\ r.pc = "fwd" => r.forwards = 1
                /\ r.resp.kind \in {"origin", "bad_gateway"} => r.forwards = 1)
    /\ \A s \in Slots : (req[s].pc # "idle") ~> (req[s].pc = "done")

\* A request whose classifier call failed, whose ERROR record was refused by
\* the database and whose origin was out of reach, answered 502.
C15_Witness ==
    \E s \in Slots :
        /\ req[s].pc = "done"
        /\ req[s].aiFailed
        /\ req[s].saveFailed
        /\ req[s].resp = BadGatewayResponse

\* Request r was given a verdict that does not block it.
Allowed(r) == r.analysis # NoVerdict /\ ~r.analysis.blocked

\* The step by which the middleware finishes with a request it was given a
\* non-blocking verdict for.
AllowedVerdictHandled(s) ==
    /\ req[s].pc \in {"ai", "save", "err_save"}
    /\ Decided(req'[s])
    /\ Allowed(req'[s])

\* The record of the verdict of request r is the first record created for it.
VerdictRecorded(r) ==
    r.attempts[1] = [id |-> r.attempts[1].id, sourceIp |-> r.ip,
                     blocked |-> FALSE, attackType |-> r.analysis.type,
                     confidence |-> r.analysis.confidence]

\* C16 as stated: the middleware finishes with a request that was given a
\* non-blocking verdict by forwarding it, once, with the record of the
\* verdict (blocked = false, the verdict's type and confidence) in the log,
\* and leaves the attack counters and the blacklist as they were.
C16_AllowLogged ==
    [][\A s \in Slots :
         AllowedVerdictHandled(s) =>
           /\ req'[s].pc = "fwd" /\ req'[s].forwards = 1 /\ req'[s].tracks = 0
           /\ VerdictRecorded(req'[s])
           /\ \/ \E i \in 1..Len(inMemoryLogs') : inMemoryLogs'[i] = req'[s].attempts[1]
              \/ \E i \in 1..Len(dbLogs') : dbLogs'[i] = req'[s].attempts[1]
           /\ ipAttackCount' = ipAttackCount
           /\ ipBlacklist' = ipBlacklist
      ]_vars

\* C16 amended: the middleware finishes with a request that was given a
\* non-blocking verdict by forwarding it, once, without a call of
\* trackAttack, and leaves the attack counters and the blacklist as they
\* were; the record of the verdict (blocked = false, the verdict's type and
\* confidence) was handed to the log sink, and it is the one record of the
\* request and in the log unless a log write was rejected.
C16_AllowForwarded ==
    [][\A s \in Slots :
         AllowedVerdictHandled(s) =>
           /\ req'[s].pc = "fwd" /\ req'[s].forwards = 1 /\ req'[s].tracks = 0
           /\ VerdictRecorded(req'[s])
           /\ ~req'[s].saveFailed =>
                 /\ Len(req'[s].attempts) = 1
                 /\ \/ \E i \in 1..Len(inMemoryLogs') :
                          inMemoryLogs'[i] = req'[s].attempts[1]
                    \/ \E i \in 1..Len(dbLogs') : dbLogs'[i] = req'[s].attempts[1]
           /\ ipAttackCount' = ipAttackCount
           /\ ipBlacklist' = ipBlacklist
      ]_vars

\* A request allowed by a SAFE verdict in durable mode: its record is the
\* newest of the collection and the origin's answer was relayed.
C16_Witness ==
    \E s \in Slots :
        /\ req[s].pc = "done"
        /\ Allowed(req[s])
        /\ req[s].resp.kind = "origin"
        /\ req[s].forwards = 1
        /\ ~req[s].saveFailed
        /\ Len(dbLogs) > 0 /\ dbLogs[1] = req[s].attempts[1]

C18_ManualBlock ==
    [][api'.op = "POST /api/blacklist" =>
         /\ api'.status \in {200, 400, 409}
         /\ api'.status = 400 <=> api'.ip = ""
         /\ api'.status = 409 <=>
               (api'.ip # "" /\ isBlacklisted(ipBlacklist, api'.ip, now))
         /\ api'.status \in {400, 409} => ipBlacklist' = ipBlacklist
         /\ api'.status = 200 =>
               /\ isBlacklisted(ipBlacklist', api'.ip, now')
               /\ MapGet(ipBlacklist', api'.ip).autoBlocked = FALSE
               /\ MapGet(ipBlacklist', api'.ip).blockedAt = now'
               /\ \A a \in IPs \ {api'.ip} :
                     MapHas(ipBlacklist', a) <=> MapHas(ipBlacklist, a)
         /\ ipAttackCount' = ipAttackCount
         /\ (api.op = "DELETE /api/blacklist" /\ api.ip = api'.ip) =>
               api'.status = 200
      ]_vars

\* A manual block refused with 409: the address is under an auto-block made
\* earlier.
C18_Witness ==
    /\ api.op = "POST /api/blacklist"
    /\ api.status = 409
    /\ AutoBlocked(ipBlacklist, api.ip)
    /\ MapGet(ipBlacklist, api.ip).blockedAt < now

\* C19: DELETE /api/blacklist/:ip answers 404 and changes neither table
\* when the address has no unexpired entry (an expired entry counts as
\* absent), and succeeds, removing entry and counter, exactly when it has
\* one.
C19_DeleteValidOnly ==
    [][api'.op = "DELETE /api/blacklist" =>
         /\ api'.status \in {200, 404}
         /\ api'.status = 200 <=> isBlacklisted(ipBlacklist, api'.ip, now)
         /\ api'.status = 404 =>
               ipBlacklist' = ipBlacklist /\ ipAttackCount' = ipAttackCount
         /\ api'.status = 200 =>
               /\ ~MapHas(ipBlacklist', api'.ip)
               /\ ipAttackCount'[api'.ip] = 0
      ]_vars

\* C20: the in-memory log never holds more than MAX_MEMORY_LOGS records; a
\* step that changes it puts one new record at the front and keeps the
\* others in their order, dropping exactly the oldest one when the log was
\* full.
C20_MemoryLogBounded ==
    /\ [](Len(inMemoryLogs) <= MAX_MEMORY_LOGS)
    /\ [][inMemoryLogs' # inMemoryLogs =>
            /\ Len(inMemoryLogs') >= 1
            /\ Head(inMemoryLogs').id = nextId
            /\ Tail(inMemoryLogs') =
                  IF Len(inMemoryLogs) = MAX_MEMORY_LOGS
                  THEN SubSeq(inMemoryLogs, 1, MAX_MEMORY_LOGS - 1)
                  ELSE inMemoryLogs
         ]_vars

\* The connection to the database still pending, one record more than the
\* cap has been logged: the log is full and its oldest record is the second.
C20_Witness ==
    /\ readyState = 2
    /\ nextId = MAX_MEMORY_LOGS + 2
    /\ Len(inMemoryLogs) = MAX_MEMORY_LOGS
    /\ inMemoryLogs[MAX_MEMORY_LOGS].id = 2
    /\ inMemoryLogs[1].id = MAX_MEMORY_LOGS + 1

\* The log of the backend that served the listing in api.
ServingLog == IF api.served = "memory" THEN inMemoryLogs ELSE dbLogs

\* Records number (p-1)*L+1 through min(p*L, N) of a log of N records.
PageOf(log, p, L) ==
    LET first == (p - 1) * L + 1
        last  == IF p * L < Len(log) THEN p * L ELSE Len(log)
    IN  IF first <= last THEN SubSeq(log, first, last) ELSE <<>>

\* The listing in api is page api.page of the serving log, newest first,
\* with the totals of that log.
PageServed ==
    LET N == Len(ServingLog)
    IN  /\ api.list = PageOf(ServingLog, api.page, api.limit)
        /\ \A i, j \in 1..Len(api.list) : i < j => api.list[i].id > api.list[j].id
        /\ api.total = N
        /\ api.pages * api.limit >= N
        /\ (api.pages - 1) * api.limit < N

C22_LazyReachability ==
    [][readyState # 2 =>
         /\ nextId' # nextId =>
               /\ dbLogs' # dbLogs <=> mongoUp
               /\ inMemoryLogs' # inMemoryLogs <=> ~mongoUp
         /\ (api'.op = "GET /api/logs" /\ api.op # "GET /api/logs"
                /\ api'.status # 500) =>
               (api'.served = "mongodb" <=> mongoUp)
      ]_vars

\* C23: the classifier is called at most once for a request: once for a
\* request that passed the blacklist check, not at all for one that did not;
\* and it receives a call only by the arrival of a request, never by the
\* failure of an earlier call.
C23_OneClassifierCall ==
    /\ [](\A s \in Slots :
            LET r == req[s]
            IN  /\ r.aiCalls <= 1
                /\ r.pc # "idle" => (r.aiCalls = 1 <=> r.entry = NoEntry)
                /\ r.aiFailed => r.aiCalls = 1)
    /\ [][\A a \in IPs :
            classifier'[a].calls # classifier[a].calls =>
              /\ classifier'[a].calls = classifier[a].calls + 1
              /\ admitted' = admitted + 1
              /\ \E s \in Slots : req[s].pc \in {"idle", "done"} /\ req'[s].pc = "ai"
         ]_vars

\* A request answered after its one call of the classifier failed.
C23_Witness ==
    \E s \in Slots :
        /\ req[s].pc = "done"
        /\ req[s].aiFailed
        /\ req[s].aiCalls = 1
        /\ classifier[req[s].ip].calls = admitted

\* The requests of source a whose blocked verdict waits for its log write.
AwaitingSave(a) == {s \in Slots : req[s].pc = "save" /\ req[s].ip = a}

\* C24: with requests of one source in flight at the same time, under every
\* interleaving, no increment of the counter is lost (the counter equals the
\* number of blocked verdicts handled so far, and the call of trackAttack of
\* a request adds exactly one), and the verdicts that cross the threshold
\* insert one auto-block: the entry is the one made by the verdict that
\* brought the counter to the threshold, and no later verdict changes it.
C24_TrackAttackAtomic ==
    /\ [](\A a \in IPs :
            /\ ipAttackCount[a] = classifier[a].run - Cardinality(AwaitingSave(a))
            /\ ipAttackCount[a] >= BLACKLIST_THRESHOLD =>
                  /\ isBlacklisted(ipBlacklist, a, now)
                  /\ AutoBlocked(ipBlacklist, a)
                  /\ MapGet(ipBlacklist, a).reason.count = BLACKLIST_THRESHOLD)
    /\ [][\A a \in IPs :
            /\ (\E s \in Slots : /\ req'[s].ip = a
                                  /\ req[s].tracks = 0
                                  /\ req[s].pc \in {"ai", "save"}
                                  /\ req'[s].tracks = 1)
                 => ipAttackCount'[a] = ipAttackCount[a] + 1
            /\ isBlacklisted(ipBlacklist, a, now) =>
                 MapGet(ipBlacklist', a) = MapGet(ipBlacklist, a)
         ]_vars

\* Two requests had passed the blacklist check when the counter stood at
\* two: the verdict of one blocked the source, the verdict of the other
\* found it blocked.
C24_Witness ==
    \E a \in IPs :
        /\ ipAttackCount[a] = BLACKLIST_THRESHOLD + 1
        /\ AutoBlocked(ipBlacklist, a)
        /\ MapGet(ipBlacklist, a).reason.count = BLACKLIST_THRESHOLD
        /\ \E s \in Slots : req[s].pc = "done" /\ req[s].tracks = 1

\* The text payload has the member "k":"v".
InPayload(payload, m) ==
    \E i \in 1..Len(payload) : payload[i] = <<m.k, m.v>>

\* C25: the payload sent to the classifier holds every query parameter and
\* every body field of the request with the value submitted, and the path
\* of the request is sent as a field of its own.
C25_PayloadComplete ==
    api.op = "POST /analyze" =>
      /\ \A i \in 1..Len(api.query) : InPayload(api.payload, api.query[i])
      /\ \A i \in 1..Len(api.body) : InPayload(api.payload, api.body[i])
      /\ api.path \in RequestPaths

\* C26: the steps of a request come in this order.  The classifier is called
\* only after the blacklist check found the source clear, and before
\* anything is logged, tracked or forwarded; the record is handed to the log
\* after the verdict; trackAttack runs only with the record of the blocked
\* verdict in the log; next() is called only after the classifier call has
\* returned or failed and the log write has settled (the record is in the
\* log unless a write was rejected); the origin is called only after next().
C26_StepOrder ==
    \A s \in Slots :
        LET r == req[s]
        IN  /\ r.aiCalls = 1 => r.entry = NoEntry
            /\ r.pc = "ai" =>
                  /\ r.analysis = NoVerdict /\ ~r.aiFailed
                  /\ r.attempts = <<>> /\ r.tracks = 0 /\ r.forwards = 0
            /\ r.pc \in {"save", "err_save"} =>
                  /\ r.analysis # NoVerdict \/ r.aiFailed
                  /\ r.attempts # <<>> /\ r.tracks = 0 /\ r.forwards = 0
            /\ r.tracks = 1 =>
                  /\ r.analysis.blocked
                  /\ Len(r.attempts) = 1
                  /\ r.attempts[1].attackType = r.analysis.type
                  /\ InLogs(r.attempts[1])
            /\ r.forwards = 1 =>
                  /\ r.pc \in {"fwd", "done"}
                  /\ r.aiCalls = 1
                  /\ r.analysis # NoVerdict \/ r.aiFailed
                  /\ r.attempts # <<>>
                  /\ ~r.saveFailed => InLogs(r.attempts[1])
            /\ (r.origin # NoOrigin \/ r.resp.kind \in {"origin", "bad_gateway"})
                  => r.forwards = 1

\* A request denied in durable mode: verdict, record in the collection,
\* trackAttack, 403.
C26_Witness ==
    \E s \in Slots :
        /\ req[s].pc = "done"
        /\ req[s].tracks = 1
        /\ req[s].resp.kind = "threat"
        /\ ~MemoryMode
        /\ Len(dbLogs) > 0 /\ dbLogs[1] = req[s].attempts[1]
        /\ ipAttackCount[req[s].ip] = 1

RECURSIVE SumCounts(_)
SumCounts(entries) ==
    IF entries = <<>> THEN 0 ELSE Head(entries).count + SumCounts(Tail(entries))

\* C27: the statistics served from the in-memory log are consistent with it
\* and with each other: total is its length, blocked the number of its
\* blocked records and the sum of the counts of the breakdown, allowed =
\* total - blocked; the breakdown has one entry for each type of a blocked
\* record, with the number of blocked records of that type, and is sorted
\* by count descending.
C27_StatsConsistent ==
    (api.op = "GET /api/stats" /\ api.status = 200 /\ api.served = "memory") =>
      LET types  == api.attackTypes
          blockd == {i \in 1..Len(inMemoryLogs) : inMemoryLogs[i].blocked}
      IN  /\ api.total = Len(inMemoryLogs)
          /\ api.blocked = Cardinality(blockd)
          /\ api.blocked = SumCounts(types)
          /\ api.allowed = api.total - api.blocked
          /\ \A i, j \in 1..Len(types) : i # j => types[i].type # types[j].type
          /\ \A i \in 1..Len(types) :
                /\ types[i].count >= 1
                /\ types[i].count =
                     Cardinality({k \in blockd :
                                    inMemoryLogs[k].attackType = types[i].type})
          /\ \A k \in blockd :
                \E i \in 1..Len(types) : types[i].type = inMemoryLogs[k].attackType
          /\ \A i, j \in 1..Len(types) : i < j => types[i].count >= types[j].count

\* Statistics of an in-memory log whose newest blocked record is of the
\* rarer type: the sort has moved that type behind the other.
C27_Witness ==
    /\ api.op = "GET /api/stats"
    /\ api.status = 200
    /\ api.served = "memory"
    /\ Len(api.attackTypes) = 2
    /\ api.attackTypes[1].count = 2
    /\ api.attackTypes[2].count = 1
    /\ inMemoryLogs[1].attackType = api.attackTypes[2].type
    /\ api.allowed = 0

\* C28: the remaining block duration reported to clients, remainingTime of
\* the blacklisted 403 and remainingSeconds of every entry of the listing,
\* is never negative and never more than BLACKLIST_DURATION (in seconds),
\* whatever time passes between the blacklist check and the response.
C28_RemainingInRange ==
    /\ \A s \in Slots :
          (req[s].entry # NoEntry /\ req[s].pc = "done") =>
            /\ req[s].resp.remainingTime >= 0
            /\ req[s].resp.remainingTime * MS_PER_SECOND <= BLACKLIST_DURATION
    /\ api.op = "GET /api/blacklist" =>
          \A i \in 1..Len(api.list) :
            /\ api.list[i].remainingSeconds >= 0
            /\ api.list[i].remainingSeconds * MS_PER_SECOND <= BLACKLIST_DURATION

\* The address has an entry whose age is within BLACKLIST_DURATION.
Unexpired(a) ==
    /\ MapHas(ipBlacklist, a)
    /\ ~Expired(MapGet(ipBlacklist, a).blockedAt, now)

\* C29: an unexpired entry is never overwritten: no step changes its
\* blockedAt, reason or autoBlocked, whether attacks are recorded for the
\* address or an operator posts it again, and it leaves the table only by
\* an explicit DELETE; an entry is replaced only once it has expired.
C29_LiveEntryKept ==
    [][\A a \in IPs :
         Unexpired(a) =>
           IF MapHas(ipBlacklist', a)
           THEN MapGet(ipBlacklist', a) = MapGet(ipBlacklist, a)
           ELSE /\ api'.op = "DELETE /api/blacklist"
                /\ api'.status = 200
                /\ api'.ip = a
      ]_vars

\* An operator's block, some time old, of a source for which attacks beyond
\* the threshold have been recorded since, has just been posted again and
\* refused: the entry is still the operator's.
C29_Witness ==
    \E a \in IPs :
        /\ Unexpired(a)
        /\ ~MapGet(ipBlacklist, a).autoBlocked
        /\ MapGet(ipBlacklist, a).blockedAt < now
        /\ ipAttackCount[a] > BLACKLIST_THRESHOLD
        /\ api.op = "POST /api/blacklist"
        /\ api.status = 409
        /\ api.ip = a

\* C30: every entry with autoBlocked = true, expired or not, belongs to an
\* address whose attack counter is at least BLACKLIST_THRESHOLD; an entry of
\* an address whose counter is below the threshold is an operator's.
C30_AutoBlockedEarned ==
    \A a \in IPs :
        /\ AutoBlocked(ipBlacklist, a) => ipAttackCount[a] >= BLACKLIST_THRESHOLD
        /\ (MapHas(ipBlacklist, a) /\ ipAttackCount[a] < BLACKLIST_THRESHOLD) =>
              /\ ~MapGet(ipBlacklist, a).autoBlocked
              /\ MapGet(ipBlacklist, a).reason.count = 0

\* An auto-blocked entry that has expired and is still in the table, its
\* counter beyond the threshold, while the entry and the counter of another
\* source have just been deleted.
C30_Witness ==
    \E a, b \in IPs :
        /\ a # b
        /\ AutoBlocked(ipBlacklist, a)
        /\ Expired(MapGet(ipBlacklist, a).blockedAt, now)
        /\ ipAttackCount[a] > BLACKLIST_THRESHOLD
        /\ api.op = "DELETE /api/blacklist"
        /\ api.status = 200
        /\ api.ip = b
        /\ ~MapHas(ipBlacklist, b)
        /\ ipAttackCount[b] = 0

\* C31: no request is passed on to the origin at a moment when its source
\* is blocked: the step that calls next() for a request finds the source
\* without an unexpired entry, also when the entry was made after the
\* request had passed the blacklist check.
C31_NoForwardWhileBlocked ==
    [][\A s \in Slots :
         (req'[s].pc = "fwd" /\ req[s].pc # "fwd") =>
           ~isBlacklisted(ipBlacklist', req'[s].ip, now')
      ]_vars

\* C32: a request denied at the blacklist stage leaves the reputation store
\* as it is: neither the step that finds the source blocked nor the step
\* that answers the 403 changes an attack counter or an entry (blockedAt
\* included), and trackAttack is not called for the request.
C32_DenyKeepsStore ==
    [][\A s \in Slots :
         (req'[s].entry # NoEntry /\ req'[s].pc # req[s].pc) =>
           /\ ipBlacklist' = ipBlacklist
           /\ ipAttackCount' = ipAttackCount
           /\ req'[s].tracks = 0
      ]_vars

\* A request denied in durable mode, some time into a block, for a source
\* with one attack on its counter: the entry and the counter are as before.
C32_Witness ==
    \E s \in Slots :
        /\ req[s].pc = "done"
        /\ req[s].entry # NoEntry
        /\ ~MemoryMode
        /\ ipAttackCount[req[s].ip] = 1
        /\ MapHas(ipBlacklist, req[s].ip)
        /\ MapGet(ipBlacklist, req[s].ip) = req[s].entry
        /\ req[s].entry.blockedAt < now

\* The entry of an address, NoEntry when it has none.
EntryOf(bl, a) == IF MapHas(bl, a) THEN MapGet(bl, a) ELSE NoEntry

\* The step changes the entry or the attack counter of the address.
Touched(a) ==
    \/ EntryOf(ipBlacklist', a) # EntryOf(ipBlacklist, a)
    \/ ipAttackCount'[a] # ipAttackCount[a]

ReadOps ==
    {"GET /api/blacklist", "GET /api/logs", "GET /api/stats", "GET /api/health",
     "GET /api/top-attackers"}

\* The step is the answer of a read-only endpoint.
ReadStep == api'.op \in ReadOps /\ api' # api

\* C33: per-address isolation.  A step of a read-only endpoint (blacklist
\* listing, logs, stats, health, top-attackers) changes no counter and
\* changes an entry only by removing one that had expired.  Every other
\* step changes the entry and the counter of one address at most: of the
\* address the block or unblock names, of the source of the request whose
\* pipeline moves.
C33_Isolation ==
    [][/\ ReadStep =>
            /\ ipAttackCount' = ipAttackCount
            /\ \A a \in IPs :
                  Touched(a) =>
                    /\ MapHas(ipBlacklist, a)
                    /\ Expired(MapGet(ipBlacklist, a).blockedAt, now)
                    /\ ~MapHas(ipBlacklist', a)
       /\ ~ReadStep =>
            /\ \A a, b \in IPs : (Touched(a) /\ Touched(b)) => a = b
            /\ \A a \in IPs :
                  /\ (Touched(a) /\ api'.op \in {"POST /api/blacklist",
                                                  "DELETE /api/blacklist"})
                       => api'.ip = a
                  /\ \A s \in Slots :
                       (Touched(a) /\ req'[s].pc \notin {"idle", req[s].pc})
                         => req'[s].ip = a
      ]_vars

\* The top attackers have been asked for in fallback mode: the block of a
\* source that had been denied once is gone from the table, and the block
\* of the other source, made one tick into the run, is still in place.
C33_Witness ==
    \E a, b \in IPs :
        /\ a # b
        /\ api.op = "GET /api/top-attackers"
        /\ \E i \in 1..Len(api.list) : api.list[i].ip = a
        /\ ~MapHas(ipBlacklist, a)
        /\ Len(inMemoryLogs) = 1
        /\ inMemoryLogs[1].sourceIp = a
        /\ inMemoryLogs[1].attackType = "BLACKLISTED"
        /\ now = BLACKLIST_DURATION + 1
        /\ isBlacklisted(ipBlacklist, b, now)
        /\ MapGet(ipBlacklist, b).blockedAt = 1

\* C34: the storage label of /api/logs, /api/stats and /api/health names
\* the backend that served the response: 'memory' when the records were
\* read from (or, for health, are being kept in) the in-memory log,
\* 'mongodb' when from the database, whatever the startup flag and the
\* state of the connection.
C34_StorageLabel ==
    /\ (api.op \in {"GET /api/logs", "GET /api/stats"} /\ api.status = 200) =>
          api.storage = api.served
    /\ api.op = "GET /api/health" =>
          api.storage = IF MemoryMode THEN "memory" ELSE "mongodb"

\* C35: a record that was written stays visible to every later listing
\* and statistics call until the fallback capacity bound evicts it: the
\* total a call reports counts every record kept in memory and every
\* record in the database, whichever backend is in reach at the time.
C35_RecordsStayVisible ==
    (api.op \in {"GET /api/logs", "GET /api/stats"} /\ api.status = 200) =>
      api.total = Len(inMemoryLogs) + Len(dbLogs)

\* C36: blacklistedIPs of /api/health is the number of entries the
\* blacklist listing returns at the same instant; expired entries not yet
\* purged are not counted.
C36_HealthCountsActive ==
    api.op = "GET /api/health" =>
      api.blacklistedIPs = Len(BlacklistListing(ipBlacklist, now))

====
